---- MODULE Spec2Model ----
(***************************************************************************)
(* A model of yt_dlp/extractor/europa.py: the timestamp parser             *)
(* _parse_datetime, the EuropaIE extractor (language preference, localized *)
(* fields, format ranking), the EuroParlWebstreamIE extractor (duration,   *)
(* manifest loop, language re-resolution, subtitle merging) and the        *)
(* EuroParlWebstreamIE2 extractor (the same steps on another page shape,   *)
(* with the manifest expander call commented out).                         *)
(*                                                                         *)
(* Text is modelled as a sequence of one-character strings, so that the    *)
(* regular expressions, re.sub and strptime act on characters as the code  *)
(* does.  Python values: None is [kind |-> "None"], a raised exception is  *)
(* [kind |-> "raise", exc |-> <class>].                                    *)
(***************************************************************************)
EXTENDS Integers, Sequences, FiniteSets, TLC

VARIABLES
  pc,                   \* position of the running call
  datetime_str,         \* argument of the _parse_datetime call under test
  parsed,               \* what that call returned or raised
  query,                \* EuropaIE: parse_qs(url)
  playlist,             \* EuropaIE: the downloaded playlist document
  preferred_langs,      \* EuropaIE: the language preference list
  title,                \* EuropaIE: resolved title
  description,          \* EuropaIE: resolved description
  language_preference,  \* EuropaIE: the quality_ids list the ranking closure holds
  webpage_nextjs,       \* EuroParlWebstreamIE2: pageProps of the page's embedded data
  json_info,            \* EuroParlWebstreamIE: the FullMeeting record
  start_actual,         \* EuroParlWebstreamIE: parsed startDateTime
  end_actual,           \* EuroParlWebstreamIE: parsed endDateTime
  video_duration,       \* EuroParlWebstreamIE: duration in seconds
  manifests,            \* EuroParlWebstreamIE: what the manifest expander returned, per hls_url
  formats,              \* both extractors: the formats list being built
  subtitles,            \* EuroParlWebstreamIE: the running subtitles collection
  result                \* what _real_extract returned or raised

vars == <<pc, datetime_str, parsed, query, playlist, preferred_langs, title, description,
          language_preference, webpage_nextjs, json_info, start_actual, end_actual, video_duration,
          manifests, formats, subtitles, result>>
parse_vars == <<datetime_str, parsed>>
europa_vars == <<query, playlist, preferred_langs, title, description, language_preference>>
webstream_vars ==
  <<webpage_nextjs, json_info, start_actual, end_actual, video_duration, manifests, subtitles>>

----------------------------------------------------------------------------
(* Python values *)

None == [kind |-> "None"]
Raise(e) == [kind |-> "raise", exc |-> e]
ValueError == Raise("ValueError")
TypeError == Raise("TypeError")
IsRaise(v) == v.kind = "raise"

----------------------------------------------------------------------------
(* Characters and the regular-expression engine (Python's re: ordered      *)
(* alternatives, greedy repeats, backtracking; re.match anchors at the     *)
(* start of the text only).                                                *)
(* A pattern is a sequence of elements, an element a sequence of           *)
(* alternatives in the order the engine tries them, an alternative a       *)
(* sequence of character classes.                                          *)

Digits == {"0", "1", "2", "3", "4", "5", "6", "7", "8", "9"}
DigitVal(c) == CHOOSE v \in 0..9 : <<"0", "1", "2", "3", "4", "5", "6", "7", "8", "9">>[v + 1] = c

Rep(S, n) == [i \in 1..n |-> S]
Lit(c) == << <<{c}>> >>
OneOf(S) == << <<S>> >>
Exactly(S, n) == << Rep(S, n) >>
\* S{lo,hi}, greedy: the longest run is tried first
Greedy(S, lo, hi) == [k \in 1..(hi - lo + 1) |-> Rep(S, hi - k + 1)]

AltMatches(alt, s, p) ==
  /\ p + Len(alt) - 1 <= Len(s)
  /\ \A i \in 1..Len(alt) : s[p + i - 1] \in alt[i]

RECURSIVE MatchFrom(_, _, _, _), TryAlts(_, _, _, _, _)
\* <<>> when elements k.. of pat do not match s at p; else <<b>>, b the start
\* position of each element followed by the position after the match.
MatchFrom(pat, k, s, p) ==
  IF k > Len(pat) THEN << <<p>> >> ELSE TryAlts(pat, k, s, p, 1)
TryAlts(pat, k, s, p, a) ==
  IF a > Len(pat[k]) THEN <<>>
  ELSE LET alt == pat[k][a]
           rest == IF AltMatches(alt, s, p)
                   THEN MatchFrom(pat, k + 1, s, p + Len(alt))
                   ELSE <<>>
       IN IF rest # <<>> THEN << <<p>> \o rest[1] >>
          ELSE TryAlts(pat, k, s, p, a + 1)

re_match(pat, s) == MatchFrom(pat, 1, s, 1)

\* re.sub(r"(\.\d{6})\d*", r"\1", s): every non-overlapping match, left to
\* right, is replaced by its group 1 (elements 1 and 2 of the pattern).
RECURSIVE re_sub_group1(_, _, _)
re_sub_group1(pat, s, p) ==
  IF p > Len(s) THEN <<>>
  ELSE LET m == MatchFrom(pat, 1, s, p)
       IN IF m # <<>>
          THEN SubSeq(s, m[1][1], m[1][3] - 1) \o re_sub_group1(pat, s, m[1][Len(pat) + 1])
          ELSE <<s[p]>> \o re_sub_group1(pat, s, p + 1)

RECURSIVE int(_)
\* int(text) for a text of digits (a leading blank, as in strptime's %d, is skipped)
int(t) ==
  IF t = <<>> THEN 0
  ELSE IF t[Len(t)] = " " THEN int(SubSeq(t, 1, Len(t) - 1))
  ELSE int(SubSeq(t, 1, Len(t) - 1)) * 10 + DigitVal(t[Len(t)])

----------------------------------------------------------------------------
(* datetime.strptime for the two formats of _parse_datetime: the format    *)
(* becomes a regular expression, directive by directive; the text must     *)
(* match it entirely; the fields must form a valid date, time and offset.  *)

D19 == Digits \ {"0"}
D05 == {"0", "1", "2", "3", "4", "5"}
Colon == << <<{":"}>>, <<>> >>

ZHead(c1) == <<{"+", "-"}, Digits, Digits>> \o c1 \o <<D05, Digits>>
ZFrac(n) == IF n = 0 THEN <<>> ELSE <<{"."}>> \o Rep(Digits, n)
\* (:?[0-5]\d(\.\d{1,6})?)?
ZGroup ==
  [k \in 1..15 |->
     IF k = 15 THEN <<>>
     ELSE Colon[((k - 1) \div 7) + 1] \o <<D05, Digits>> \o ZFrac(6 - ((k - 1) % 7))]

DirectiveRegex(d) ==
  CASE d = "Y" -> Exactly(Digits, 4)
    [] d = "m" -> << <<{"1"}, {"0", "1", "2"}>>, <<{"0"}, D19>>, <<D19>> >>
    [] d = "d" -> << <<{"3"}, {"0", "1"}>>, <<{"1", "2"}, Digits>>, <<{"0"}, D19>>,
                     <<D19>>, <<{" "}, D19>> >>
    [] d = "H" -> << <<{"2"}, {"0", "1", "2", "3"}>>, <<{"0", "1"}, Digits>>, <<Digits>> >>
    [] d = "M" -> << <<D05, Digits>>, <<Digits>> >>
    [] d = "S" -> << <<{"6"}, {"0", "1"}>>, <<D05, Digits>>, <<Digits>> >>
    [] d = "f" -> Greedy(Digits, 1, 6)
    \* [+-]\d\d:?[0-5]\d(:?[0-5]\d(\.\d{1,6})?)?|(?-i:Z)
    [] d = "z" -> [k \in 1..31 |->
                     IF k = 31 THEN <<{"Z"}>>
                     ELSE ZHead(Colon[((k - 1) \div 15) + 1]) \o ZGroup[((k - 1) % 15) + 1]]

Dir(d) == [d |-> d, re |-> DirectiveRegex(d)]
\* a literal character of the format (the format's regex ignores case)
Chr(c) == [d |-> "lit", re |-> IF c = "T" THEN OneOf({"T", "t"}) ELSE Lit(c)]

\* "%Y-%m-%dT%H:%M:%S.%f%z"
datetime_format_with_microseconds ==
  <<Dir("Y"), Chr("-"), Dir("m"), Chr("-"), Dir("d"), Chr("T"), Dir("H"), Chr(":"),
    Dir("M"), Chr(":"), Dir("S"), Chr("."), Dir("f"), Dir("z")>>
\* "%Y-%m-%dT%H:%M:%S%z"
datetime_format_without_microseconds ==
  <<Dir("Y"), Chr("-"), Dir("m"), Chr("-"), Dir("d"), Chr("T"), Dir("H"), Chr(":"),
    Dir("M"), Chr(":"), Dir("S"), Dir("z")>>

IsLeap(y) == y % 4 = 0 /\ (y % 100 # 0 \/ y % 400 = 0)
DaysInMonth(y, m) ==
  IF m = 2 THEN (IF IsLeap(y) THEN 29 ELSE 28)
  ELSE IF m \in {4, 6, 9, 11} THEN 30 ELSE 31
RECURSIVE DaysBeforeMonth(_, _)
DaysBeforeMonth(y, m) ==
  IF m = 1 THEN 0 ELSE DaysBeforeMonth(y, m - 1) + DaysInMonth(y, m - 1)
\* date.toordinal(): 0001-01-01 is day 1
toordinal(y, m, d) ==
  (y - 1) * 365 + ((y - 1) \div 4) - ((y - 1) \div 100) + ((y - 1) \div 400)
    + DaysBeforeMonth(y, m) + d

AllDigits(t) == \A i \in 1..Len(t) : t[i] \in Digits
Pad6(t) == t \o [i \in 1..(6 - Len(t)) |-> "0"]

\* the %z branch of _strptime on the matched offset text
GmtOff(z0) ==
  IF z0 = <<"Z">> THEN [kind |-> "offset", seconds |-> 0, microseconds |-> 0]
  ELSE
    LET colon == z0[4] = ":"
        z1 == IF colon THEN SubSeq(z0, 1, 3) \o SubSeq(z0, 5, Len(z0)) ELSE z0
        z == IF colon /\ Len(z1) > 5 THEN SubSeq(z1, 1, 5) \o SubSeq(z1, 7, Len(z1)) ELSE z1
        secs == SubSeq(z, 6, IF Len(z) < 7 THEN Len(z) ELSE 7)
        frac == SubSeq(z, 9, Len(z))
        sign == IF z[1] = "-" THEN -1 ELSE 1
    IN IF colon /\ Len(z1) > 5 /\ z1[6] # ":" THEN ValueError
       ELSE IF ~AllDigits(SubSeq(z, 2, 5)) \/ ~AllDigits(secs) THEN ValueError
       ELSE [kind |-> "offset",
             seconds |-> sign * (int(SubSeq(z, 2, 3)) * 60 * 60 + int(SubSeq(z, 4, 5)) * 60
                                 + int(secs)),
             microseconds |-> sign * int(Pad6(frac))]

strptime(data_string, format) ==
  LET found == re_match([i \in DOMAIN format |-> format[i].re], data_string)
      b == found[1]
      has(d) == \E i \in DOMAIN format : format[i].d = d
      group(d) == LET i == CHOOSE j \in DOMAIN format : format[j].d = d
                  IN SubSeq(data_string, b[i], b[i + 1] - 1)
      year == int(group("Y"))
      month == int(group("m"))
      day == int(group("d"))
      second == int(group("S"))
      gmtoff == GmtOff(group("z"))
  IN IF found = <<>> THEN ValueError
     ELSE IF b[Len(format) + 1] # Len(data_string) + 1 THEN ValueError
     ELSE IF IsRaise(gmtoff) THEN gmtoff
     ELSE IF year < 1 \/ day > DaysInMonth(year, month) THEN ValueError
     ELSE IF second > 59 THEN ValueError
     ELSE IF gmtoff.seconds >= 24 * 60 * 60 \/ gmtoff.seconds <= -(24 * 60 * 60) THEN ValueError
     ELSE [kind |-> "datetime",
           year |-> year, month |-> month, day |-> day,
           hour |-> int(group("H")), minute |-> int(group("M")), second |-> second,
           microsecond |-> IF has("f") THEN int(Pad6(group("f"))) ELSE 0,
           utcoffset |-> [seconds |-> gmtoff.seconds, microseconds |-> gmtoff.microseconds]]

\* utils.datetime_from_str(date_str, format=...): the text parsed with the
\* explicit format; a text that does not fit raises ValueError.
datetime_from_str(date_str, format) == strptime(date_str, format)

----------------------------------------------------------------------------
(* _parse_datetime *)

DateTimePrefix ==
  <<Exactly(Digits, 4), Lit("-"), Exactly(Digits, 2), Lit("-"), Exactly(Digits, 2), Lit("T"),
    Exactly(Digits, 2), Lit(":"), Exactly(Digits, 2), Lit(":"), Exactly(Digits, 2)>>
OffsetSuffix == <<OneOf({"+", "-"}), Exactly(Digits, 2), Lit(":"), Exactly(Digits, 2)>>

\* r"\d{4}-\d{2}-\d{2}T\d{2}:\d{2}:\d{2}\.\d{1,7}[+-]\d{2}:\d{2}"
datetime_regex_with_microseconds ==
  DateTimePrefix \o <<Lit("."), Greedy(Digits, 1, 7)>> \o OffsetSuffix
\* r"\d{4}-\d{2}-\d{2}T\d{2}:\d{2}:\d{2}[+-]\d{2}:\d{2}"
datetime_regex_without_microseconds == DateTimePrefix \o OffsetSuffix

\* r"(\.\d{6})\d*": \d* can take at most the n characters of the text
pattern(n) == <<Lit("."), Exactly(Digits, 6), Greedy(Digits, 0, n)>>

\* the truncation left out: the text goes to strptime as it came
TruncateFraction_none(s) == s
TruncateFraction(s) == re_sub_group1(pattern(Len(s)), s, 1)

Pass == [kind |-> "pass"]
\* no handler: the exception leaves _parse_datetime
ExceptValueError_none(r) == r
\* try: return ... / except ValueError: pass
ExceptValueError(r) == IF r = ValueError THEN Pass ELSE r

_parse_datetime(s0) ==
  LET m1 == re_match(datetime_regex_with_microseconds, s0) # <<>>
      s1 == IF m1 THEN TruncateFraction(s0) ELSE s0
      r1 == IF m1
            THEN ExceptValueError(datetime_from_str(s1, datetime_format_with_microseconds))
            ELSE Pass
      m2 == re_match(datetime_regex_without_microseconds, s1) # <<>>
      r2 == IF m2
            THEN ExceptValueError(datetime_from_str(s1, datetime_format_without_microseconds))
            ELSE Pass
  IN IF r1 # Pass THEN r1
     ELSE IF r2 # Pass THEN r2
     ELSE None

----------------------------------------------------------------------------
(* Timestamp texts *)

DateTexts ==
  { <<"2","0","2","2","-","0","9","-","1","4">>,
    <<"2","0","2","2","-","0","2","-","3","0">>,
    <<"2","0","2","2","-","1","3","-","0","1">>,
    <<"0","0","0","0","-","0","9","-","1","4">>,
    <<"2","0","2","4","-","0","2","-","2","9">> }
TimeTexts ==
  { <<"0","9",":","0","0",":","0","0">>,
    <<"0","9",":","0","0",":","3","4">>,
    <<"2","4",":","0","0",":","0","0">>,
    <<"2","3",":","5","9",":","6","0">> }
FracTexts ==
  { <<>>,
    <<".","5">>,
    <<".","1","2","3","4","5","6">>,
    <<".","1","2","3","4","5","6","7">>,
    <<".","1","2","3","4","5","6","7","8","9">>,
    <<".","9","9","9","9","9","9","9">>,
    <<".","9","9","9","9","9","9","9","9">> }
ZoneTexts ==
  { <<"+","0","2",":","0","0">>,
    <<"-","0","1",":","0","0">>,
    <<"+","0","0",":","0","0">>,
    <<"Z">>,
    <<"+","2","4",":","0","0">>,
    <<"+","0","2",":","6","0">> }
TailTexts ==
  { <<>>,
    <<"x">>,
    <<":","3","0">>,
    <<".","1","2","3","4","5","6","7">> }
NotADate == <<"n","o","t","-","a","-","d","a","t","e">>

ParseInputs ==
  { d \o <<"T">> \o t \o f \o z \o x :
      d \in DateTexts, t \in TimeTexts, f \in FracTexts, z \in ZoneTexts, x \in TailTexts }
  \cup {NotADate, <<>>}

----------------------------------------------------------------------------
(* The call _parse_datetime(datetime_str) on its own *)

ParseIdle == datetime_str = None /\ parsed = None
EuropaIdle ==
  /\ query = None /\ playlist = None /\ preferred_langs = None
  /\ title = None /\ description = None /\ language_preference = None
WebstreamIdle ==
  /\ webpage_nextjs = None /\ json_info = None /\ start_actual = None /\ end_actual = None
  /\ video_duration = None /\ manifests = None /\ subtitles = None

InitParse ==
  /\ pc = "parse_call"
  /\ datetime_str \in ParseInputs
  /\ parsed = None
  /\ EuropaIdle /\ WebstreamIdle /\ formats = None /\ result = None

CallParseDatetime ==
  /\ pc = "parse_call"
  /\ parsed' = _parse_datetime(datetime_str)
  /\ pc' = "parse_done"
  /\ UNCHANGED <<datetime_str, europa_vars, webstream_vars, formats, result>>

NextParse == CallParseDatetime

SpecParse == InitParse /\ [][NextParse]_vars
----------------------------------------------------------------------------
(* Python strings and truthiness.  A language code, URL or track identifier *)
(* is an opaque non-empty string; a label is text, character by character.  *)

Str(x) == [kind |-> "str", s |-> x]
Text(cs) == [kind |-> "text", s |-> cs]
Truthy(v) == v.kind # "None" /\ (v.kind = "text" => v.s # <<>>)
\* Python's `a or b`
Or(a, b) == IF Truthy(a) THEN a ELSE b

\* str.isspace: the characters str.strip() removes.  Space, tab, newline,
\* carriage return, form feed, then (written raw) U+000B, U+001C..U+001F,
\* U+0085 and U+00A0; the spaces beyond U+00FF cannot be written in a string
\* here and are in no text of the model.
Whitespace ==
  {" ", "\t", "\n", "\r", "\f", "", "", "", "", "", "", " "}

RECURSIVE lstrip(_), rstrip(_)
lstrip(cs) ==
  IF cs # <<>> /\ cs[1] \in Whitespace THEN lstrip(SubSeq(cs, 2, Len(cs))) ELSE cs
rstrip(cs) ==
  IF cs # <<>> /\ cs[Len(cs)] \in Whitespace THEN rstrip(SubSeq(cs, 1, Len(cs) - 1)) ELSE cs
strip(cs) == rstrip(lstrip(cs))

Reverse(seq) == [i \in 1..Len(seq) |-> seq[Len(seq) + 1 - i]]
SeqsUpTo(S, n) == UNION {[1..k -> S] : k \in 0..n}

----------------------------------------------------------------------------
(* EuropaIE._real_extract *)

RECURSIVE ScanItems(_)
\* the first loop of get_item: items[lang] = label.strip() for every item with
\* a lang and a label, a later item replacing an earlier one of its language
ScanItems(item_list) ==
  IF item_list = <<>> THEN [l \in {} |-> None]
  ELSE LET items == ScanItems(SubSeq(item_list, 1, Len(item_list) - 1))
           item == item_list[Len(item_list)]
       IN IF Truthy(item.lg) /\ Truthy(item.label)
          THEN [l \in DOMAIN items \cup {item.lg} |->
                  IF l = item.lg THEN Text(strip(item.label.s)) ELSE items[l]]
          ELSE items

RECURSIVE FirstPreferred(_, _)
\* the second loop of get_item: the first p of preference with a truthy
\* items.get(p); None when the loop ends
FirstPreferred(items, preference) ==
  IF preference = <<>> THEN None
  ELSE IF preference[1] \in DOMAIN items /\ Truthy(items[preference[1]])
       THEN items[preference[1]]
       ELSE FirstPreferred(items, SubSeq(preference, 2, Len(preference)))

\* the first label of a language kept instead of the last
get_item_first(item_list, preference) ==
  FirstPreferred(ScanItems(Reverse(item_list)), preference)
get_item(item_list, preference) == FirstPreferred(ScanItems(item_list), preference)

RECURSIVE orderedSet(_)
\* utils.orderedSet: duplicates removed, first occurrences kept in order
orderedSet(seq) ==
  IF seq = <<>> THEN <<>>
  ELSE LET front == orderedSet(SubSeq(seq, 1, Len(seq) - 1))
           x == seq[Len(seq)]
       IN IF \E i \in 1..Len(front) : front[i] = x THEN front ELSE Append(front, x)

\* query.get('sitelang', ('en', ))[0]
PreferredLang(q) == IF "sitelang" \in DOMAIN q THEN q["sitelang"][1] ELSE Str("en")

\* the tuple used as it is, duplicates included
PreferredLangs_tuple(preferred_lang) == <<preferred_lang, Str("en"), Str("int")>>
\* orderedSet((preferred_lang, 'en', 'int'))
PreferredLangs(preferred_lang) == orderedSet(<<preferred_lang, Str("en"), Str("int")>>)

\* utils.qualities(quality_ids)(qid): the position of qid in quality_ids, -1
\* for a qid that is not in it
qualities(quality_ids, qid) ==
  IF \E i \in 1..Len(quality_ids) : quality_ids[i] = qid
  THEN (CHOOSE i \in 1..Len(quality_ids) : quality_ids[i] = qid) - 1
  ELSE -1

\* the list ranked without the reversal
LanguagePreference_forward(langs) == langs
\* qualities(preferred_langs[::-1]): the list the closure ranks against
LanguagePreference(langs) == Reverse(langs)

\* one pass of the loop over ./files/file
AddFile(fmts, file_, quality_ids) ==
  IF ~Truthy(file_.url) THEN fmts
  ELSE Append(fmts, [url |-> file_.url, format_id |-> file_.lg,
                     language_preference |-> qualities(quality_ids, file_.lg)])

RECURSIVE AddFiles(_, _, _)
AddFiles(fmts, files, quality_ids) ==
  IF files = <<>> THEN fmts
  ELSE AddFiles(AddFile(fmts, files[1], quality_ids), SubSeq(files, 2, Len(files)), quality_ids)

video_id == Text(<<"I", "1", "0", "7", "7", "5", "8">>)

MaxItems == 2
MaxFiles == 2

ItemLangs == {"en", "int", "fr"}
Labels ==
  {None, Text(<<" ", "\n">>), Text(<<"A">>), Text(<<" ", "B", " ">>),
   Text(<<"\t", "C", "\r", "\n">>)}
Items ==
  {[lg |-> None, label |-> Text(<<"A">>)]}
    \cup {[lg |-> Str(l), label |-> b] : l \in ItemLangs, b \in Labels}
Files ==
  {[url |-> None, lg |-> Str("en")]}
    \cup {[url |-> Str("u"), lg |-> l] : l \in {None, Str("en"), Str("fr"), Str("int"), Str("de")}}
DefaultItems == <<[lg |-> Str("int"), label |-> Text(<<"A">>)]>>

\* the playlist documents: one of the three lists varies, the others are fixed
Playlists ==
  {[title |-> t, description |-> DefaultItems, files |-> <<>>] : t \in SeqsUpTo(Items, MaxItems)}
    \cup {[title |-> DefaultItems, description |-> d, files |-> <<>>] : d \in SeqsUpTo(Items, MaxItems)}
    \cup {[title |-> DefaultItems, description |-> DefaultItems, files |-> f] :
            f \in SeqsUpTo(Files, MaxFiles)}

\* parse_qs(url): no sitelang parameter, or its values in order
Queries ==
  {[k \in {} |-> <<>>]}
    \cup {[sitelang |-> <<Str(l)>>] : l \in {"en", "fr", "int", "de"}}
    \cup {[sitelang |-> <<Str("fr"), Str("en")>>]}

InitEuropa ==
  /\ pc = "eu_query"
  /\ query \in Queries
  /\ playlist \in Playlists
  /\ preferred_langs = None /\ title = None /\ description = None
  /\ language_preference = None
  /\ formats = None /\ result = None
  /\ ParseIdle /\ WebstreamIdle

\* lines 84-87
EuPreference ==
  /\ pc = "eu_query"
  /\ preferred_langs' = PreferredLangs(PreferredLang(query))
  /\ pc' = "eu_title"
  /\ UNCHANGED <<parse_vars, webstream_vars, query, playlist, title, description,
                 language_preference, formats, result>>

\* line 89
EuTitle ==
  /\ pc = "eu_title"
  /\ title' = Or(get_item(playlist.title, preferred_langs), video_id)
  /\ pc' = "eu_description"
  /\ UNCHANGED <<parse_vars, webstream_vars, query, playlist, preferred_langs, description,
                 language_preference, formats, result>>

\* line 90
EuDescription ==
  /\ pc = "eu_description"
  /\ description' = get_item(playlist.description, preferred_langs)
  /\ pc' = "eu_formats"
  /\ UNCHANGED <<parse_vars, webstream_vars, query, playlist, preferred_langs, title,
                 language_preference, formats, result>>

\* lines 96-109
EuFormats ==
  /\ pc = "eu_formats"
  /\ language_preference' = LanguagePreference(preferred_langs)
  /\ formats' = AddFiles(<<>>, playlist.files, language_preference')
  /\ pc' = "eu_return"
  /\ UNCHANGED <<parse_vars, webstream_vars, query, playlist, preferred_langs, title,
                 description, result>>

\* lines 111-120
EuReturn ==
  /\ pc = "eu_return"
  /\ result' = [kind |-> "info", id |-> video_id, title |-> title,
                description |-> description, formats |-> formats]
  /\ pc' = "eu_done"
  /\ UNCHANGED <<parse_vars, webstream_vars, europa_vars, formats>>

NextEuropa == EuPreference \/ EuTitle \/ EuDescription \/ EuFormats \/ EuReturn

SpecEuropa == InitEuropa /\ [][NextEuropa]_vars
----------------------------------------------------------------------------
(* Python integers, datetime arithmetic and timedelta.total_seconds().      *)
(* An integer n of seconds that may exceed 32 bits is held as               *)
(* [days, seconds] with n = days * 86400 + seconds, 0 <= seconds < 86400.   *)

Seconds(d, sec) == [kind |-> "int", days |-> d + (sec \div (24 * 60 * 60)),
                seconds |-> sec % (24 * 60 * 60)]

\* timedelta(days, seconds, microseconds), normalised as the constructor does
timedelta(d, sec, us) ==
  LET s1 == sec + (us \div 1000000)
  IN [days |-> d + (s1 \div (24 * 60 * 60)), seconds |-> s1 % (24 * 60 * 60),
      microseconds |-> us % 1000000]

SecondOfDay(dt) == dt.second + dt.minute * 60 + dt.hour * 3600

\* datetime.__sub__ of two aware datetimes: base + otoff - myoff
datetime_sub(self, other) ==
  timedelta(toordinal(self.year, self.month, self.day)
              - toordinal(other.year, other.month, other.day),
            SecondOfDay(self) - SecondOfDay(other)
              + other.utcoffset.seconds - self.utcoffset.seconds,
            self.microsecond - other.microsecond
              + other.utcoffset.microseconds - self.utcoffset.microseconds)

RECURSIVE Pow2(_), Pow2Pair(_)
Pow2(e) == IF e = 0 THEN 1 ELSE 2 * Pow2(e - 1)
\* 2^e seconds as <<days, seconds>>, 16 <= e <= 47
Pow2Pair(e) ==
  IF e = 16 THEN <<0, 65536>>
  ELSE LET h == Pow2Pair(e - 1)
       IN <<2 * h[1] + ((2 * h[2]) \div (24 * 60 * 60)), (2 * h[2]) % (24 * 60 * 60)>>
PairGE(a, b) == a[1] > b[1] \/ (a[1] = b[1] /\ a[2] >= b[2])

\* total_seconds() is the float nearest to microseconds / 10^6.  With q whole
\* seconds and r microseconds, the float is the whole number q + 1 exactly when
\* 1 - r / 10^6 is under half the spacing 2^(e - 52) of the floats of that
\* size, 2^e <= |value| < 2^(e + 1); that needs e >= 34.
FloatRoundsToNextInteger(td) ==
  /\ td.microseconds > 0
  /\ LET a == IF td.days >= 0 THEN <<td.days, td.seconds>>
              ELSE <<-td.days - 1, (24 * 60 * 60) - 1 - td.seconds>>
     IN /\ PairGE(a, Pow2Pair(34))
        /\ LET e == CHOOSE x \in 34..46 : PairGE(a, Pow2Pair(x)) /\ ~PairGE(a, Pow2Pair(x + 1))
           IN 1000000 - td.microseconds <= 999999 \div Pow2(53 - e)

\* td.total_seconds().__floor__()
total_seconds_floor(td) ==
  Seconds(td.days, td.seconds + (IF FloatRoundsToNextInteger(td) THEN 1 ELSE 0))

\* line 192: (end_actual - start_actual).total_seconds().__floor__()
Duration(start, end) ==
  IF start = None \/ end = None THEN TypeError
  ELSE total_seconds_floor(datetime_sub(end, start))

----------------------------------------------------------------------------
(* EuroParlWebstreamIE._real_extract *)

RECURSIVE _get_lang(_, _)
_get_lang(track_identifier, meetingAudio) ==
  IF track_identifier = None THEN None
  ELSE IF meetingAudio = <<>> THEN None
  ELSE IF meetingAudio[1].trackIdentifier = track_identifier THEN meetingAudio[1].language
  ELSE _get_lang(track_identifier, SubSeq(meetingAudio, 2, Len(meetingAudio)))

\* traverse_obj(json_info, ((('meetingVideo'), ('meetingVideos', ...)), 'hlsUrl'))
HlsUrls(info) ==
  (IF info.meetingVideo = None THEN <<>> ELSE <<info.meetingVideo.hlsUrl>>)
    \o [i \in 1..Len(info.meetingVideos) |-> info.meetingVideos[i].hlsUrl]

\* InfoExtractor._merge_subtitle_items: list1, then the items of list2 not in it
_merge_subtitle_items(list1, list2) ==
  list1 \o SelectSeq(list2, LAMBDA item : \A i \in 1..Len(list1) : list1[i] # item)

\* InfoExtractor._merge_subtitles(d, target=target): language by language
_merge_subtitles(d, target) ==
  [lang \in DOMAIN target \cup DOMAIN d |->
     IF lang \in DOMAIN d
     THEN _merge_subtitle_items(IF lang \in DOMAIN target THEN target[lang] ELSE <<>>, d[lang])
     ELSE target[lang]]

\* the lookup run over the whole formats list at every manifest
ExtendAndResolve_all(fmts, fmt, meetingAudio) ==
  [j \in 1..(Len(fmts) + Len(fmt)) |->
     [(fmts \o fmt)[j] EXCEPT !.language = _get_lang((fmts \o fmt)[j].language, meetingAudio)]]
\* lines 206-208: formats.extend(fmt), then every elem of fmt gets its language
\* looked up (the elements of fmt are the objects just appended)
ExtendAndResolve(fmts, fmt, meetingAudio) ==
  fmts \o [j \in 1..Len(fmt) |->
             [fmt[j] EXCEPT !.language = _get_lang(fmt[j].language, meetingAudio)]]

\* dict.update: a language's list replaced by the manifest's
MergeManifestSubtitles_update(subs, target) ==
  [lang \in DOMAIN target \cup DOMAIN subs |->
     IF lang \in DOMAIN subs THEN subs[lang] ELSE target[lang]]
\* line 209
MergeManifestSubtitles(subs, target) == _merge_subtitles(subs, target)

\* "2022-09-14T09:00:00+00:00"
T1 ==
  <<"2","0","2","2","-","0","9","-","1","4","T","0","9",":","0","0",":","0","0","+","0","0",":","0","0">>
\* "2022-09-14T09:00:34+00:00"
T2 ==
  <<"2","0","2","2","-","0","9","-","1","4","T","0","9",":","0","0",":","3","4","+","0","0",":","0","0">>
\* "2022-09-14T11:00:00.5+02:00"
T3 ==
  <<"2","0","2","2","-","0","9","-","1","4","T","1","1",":","0","0",":","0","0",".","5","+","0","2",":","0","0">>
\* "2022-09-14T08:00:33.9999999-01:00"
T4 ==
  <<"2","0","2","2","-","0","9","-","1","4","T","0","8",":","0","0",":","3","3",".","9","9","9","9","9","9","9","-","0","1",":","0","0">>
\* "1400-01-01T00:00:00.000001+00:00"
T5 ==
  <<"1","4","0","0","-","0","1","-","0","1","T","0","0",":","0","0",":","0","0",".","0","0","0","0","0","1","+","0","0",":","0","0">>
\* "2022-09-14T09:00:00.123456789+00:00"
T7 ==
  <<"2","0","2","2","-","0","9","-","1","4","T","0","9",":","0","0",":","0","0",".","1","2","3","4","5","6","7","8","9","+","0","0",":","0","0">>
\* "2022-02-30T09:00:00+00:00"
T8 ==
  <<"2","0","2","2","-","0","2","-","3","0","T","0","9",":","0","0",":","0","0","+","0","0",":","0","0">>

MeetingTimes == {T1, T2, T3, T4, T5, T7, T8, NotADate}

Audio(t, l) == [trackIdentifier |-> t, language |-> l]
MeetingAudios ==
  { <<>>,
    <<Audio(Str("t1"), Str("en"))>>,
    <<Audio(Str("t1"), Str("en")), Audio(Str("t1"), Str("fr"))>>,
    <<Audio(Str("t2"), Str("fr")), Audio(Str("t1"), Str("en"))>>,
    <<Audio(Str("t1"), None), Audio(Str("t1"), Str("en"))>> }

MaxMeetingVideos == 2
Video(i) == [hlsUrl |-> Str(i)]
MeetingVideoLists == {[i \in 1..n |-> Video(i)] : n \in 0..MaxMeetingVideos}

\* the FullMeeting records: the timestamps vary with one manifest at most, or
\* the audio tracks and manifests vary with the timestamps fixed
Meetings ==
  {[id |-> Str("id"), startDateTime |-> a, endDateTime |-> b,
    meetingAudio |-> <<Audio(Str("t1"), Str("en"))>>, meetingVideo |-> v, meetingVideos |-> <<>>] :
      a \in MeetingTimes, b \in MeetingTimes, v \in {None, Video(0)}}
    \cup
  {[id |-> Str("id"), startDateTime |-> T1, endDateTime |-> T2,
    meetingAudio |-> au, meetingVideo |-> v, meetingVideos |-> vs] :
      au \in MeetingAudios, v \in {None, Video(0)}, vs \in MeetingVideoLists}

\* what the manifest expander returns for one manifest: the language fields
\* of the format entries (track identifiers) and the subtitle tracks
ManifestLanguages ==
  { <<>>,
    <<Str("t1")>>,
    <<None, Str("t2")>>,
    <<Str("t1"), Str("t3")>> }
Sub(u) == [url |-> Str(u)]
ManifestSubtitles ==
  { [l \in {} |-> <<>>],
    [en |-> <<Sub("a")>>],
    [en |-> <<Sub("a"), Sub("b")>>],
    [en |-> <<Sub("c")>>, fr |-> <<Sub("d")>>] }

InitWebstream ==
  /\ pc = "ws_start"
  /\ webpage_nextjs = None
  /\ json_info \in Meetings
  /\ start_actual = None /\ end_actual = None /\ video_duration = None
  /\ manifests = None /\ subtitles = None
  /\ formats = None /\ result = None
  /\ ParseIdle /\ EuropaIdle

\* lines 190-191
WsParseTimes ==
  /\ pc = "ws_start"
  /\ start_actual' = _parse_datetime(json_info.startDateTime)
  /\ end_actual' = _parse_datetime(json_info.endDateTime)
  /\ pc' = "ws_duration"
  /\ UNCHANGED <<parse_vars, europa_vars, webpage_nextjs, json_info, video_duration, manifests, subtitles,
                 formats, result>>

\* line 192 raises: the call ends
WsDurationRaises ==
  /\ pc = "ws_duration"
  /\ IsRaise(Duration(start_actual, end_actual))
  /\ result' = Duration(start_actual, end_actual)
  /\ pc' = "ws_done"
  /\ UNCHANGED <<parse_vars, europa_vars, webpage_nextjs, json_info, start_actual, end_actual, video_duration,
                 manifests, subtitles, formats>>

\* lines 192-202
WsDuration ==
  /\ pc = "ws_duration"
  /\ ~IsRaise(Duration(start_actual, end_actual))
  /\ video_duration' = Duration(start_actual, end_actual)
  /\ formats' = <<>>
  /\ subtitles' = [l \in {} |-> <<>>]
  /\ manifests' = <<>>
  /\ pc' = "ws_loop"
  /\ UNCHANGED <<parse_vars, europa_vars, webpage_nextjs, json_info, start_actual, end_actual, result>>

\* lines 203-209, one manifest
WsManifest ==
  /\ pc = "ws_loop"
  /\ Len(manifests) < Len(HlsUrls(json_info))
  /\ \E langs \in ManifestLanguages, subs \in ManifestSubtitles :
       LET hls_url == HlsUrls(json_info)[Len(manifests) + 1]
           fmt == [j \in 1..Len(langs) |->
                     [url |-> hls_url, format_id |-> j, language |-> langs[j]]]
       IN /\ manifests' = Append(manifests, [fmt |-> fmt, subs |-> subs])
          /\ formats' = ExtendAndResolve(formats, fmt, json_info.meetingAudio)
          /\ subtitles' = MergeManifestSubtitles(subs, subtitles)
  /\ UNCHANGED <<pc, parse_vars, europa_vars, webpage_nextjs, json_info, start_actual, end_actual,
                 video_duration, result>>

\* line 205 raises: the manifest cannot be fetched or parsed
WsManifestRaises ==
  /\ pc = "ws_loop"
  /\ Len(manifests) < Len(HlsUrls(json_info))
  /\ result' = Raise("ExtractorError")
  /\ pc' = "ws_done"
  /\ UNCHANGED <<parse_vars, europa_vars, webpage_nextjs, json_info, start_actual, end_actual, video_duration,
                 manifests, subtitles, formats>>

\* lines 211-219
WsReturn ==
  /\ pc = "ws_loop"
  /\ Len(manifests) = Len(HlsUrls(json_info))
  /\ result' = [kind |-> "info", id |-> json_info.id, formats |-> formats,
                subtitles |-> subtitles, duration |-> video_duration]
  /\ pc' = "ws_done"
  /\ UNCHANGED <<parse_vars, europa_vars, webstream_vars, formats>>

NextWebstream ==
  WsParseTimes \/ WsDurationRaises \/ WsDuration \/ WsManifest \/ WsManifestRaises \/ WsReturn

SpecWebstream == InitWebstream /\ [][NextWebstream]_vars

----------------------------------------------------------------------------
(* EuroParlWebstreamIE2._real_extract *)

KeyError == Raise("KeyError")
NameError == Raise("NameError")

\* d[k] on a dict, and on the outcome of an earlier subscript of the chain
Subscript(d, k) ==
  IF d = KeyError THEN KeyError
  ELSE IF k \in DOMAIN d THEN d[k] ELSE KeyError

\* lines 281-283, in the order they are evaluated
EntryId(page) == Subscript(page, "entryId")
Resolutions(page) == Subscript(Subscript(Subscript(page, "mediaItem"), "videos"), "resolutions")
MediaAssets(page) == Subscript(Subscript(page, "mediaItemV2"), "mediaAssets")
PageDataOutcome(page) ==
  IF EntryId(page) = KeyError \/ Resolutions(page) = KeyError \/ MediaAssets(page) = KeyError
  THEN KeyError
  ELSE [kind |-> "ok", formats |-> Resolutions(page), subtitles |-> MediaAssets(page)]

MediaItem == [videos |-> [resolutions |-> <<[url |-> Str("r")]>>]]
MediaItemV2 == [mediaAssets |-> <<[url |-> Str("s")]>>]
\* pageProps: complete, or with one of the keys the extractor subscripts missing
PageProps ==
  { [entryId |-> Str("e"), mediaItem |-> MediaItem, mediaItemV2 |-> MediaItemV2],
    [mediaItem |-> MediaItem, mediaItemV2 |-> MediaItemV2],
    [entryId |-> Str("e"), mediaItemV2 |-> MediaItemV2],
    [entryId |-> Str("e"), mediaItem |-> [title |-> Str("t")], mediaItemV2 |-> MediaItemV2],
    [entryId |-> Str("e"), mediaItem |-> MediaItem] }

InitWebstream2 ==
  /\ pc = "ws2_start"
  /\ webpage_nextjs \in PageProps
  /\ json_info \in Meetings
  /\ start_actual = None /\ end_actual = None /\ video_duration = None
  /\ manifests = None /\ subtitles = None
  /\ formats = None /\ result = None
  /\ ParseIdle /\ EuropaIdle

\* lines 281-283 raise: a key is missing
Ws2PageDataRaises ==
  /\ pc = "ws2_start"
  /\ PageDataOutcome(webpage_nextjs) = KeyError
  /\ result' = KeyError
  /\ pc' = "ws2_done"
  /\ UNCHANGED <<parse_vars, europa_vars, webstream_vars, formats>>

\* lines 281-283
Ws2PageData ==
  /\ pc = "ws2_start"
  /\ PageDataOutcome(webpage_nextjs) # KeyError
  /\ formats' = PageDataOutcome(webpage_nextjs).formats
  /\ subtitles' = PageDataOutcome(webpage_nextjs).subtitles
  /\ pc' = "ws2_times"
  /\ UNCHANGED <<parse_vars, europa_vars, webpage_nextjs, json_info, start_actual, end_actual,
                 video_duration, manifests, result>>

\* lines 300-301
Ws2ParseTimes ==
  /\ pc = "ws2_times"
  /\ start_actual' = _parse_datetime(json_info.startDateTime)
  /\ end_actual' = _parse_datetime(json_info.endDateTime)
  /\ pc' = "ws2_duration"
  /\ UNCHANGED <<parse_vars, europa_vars, webpage_nextjs, json_info, video_duration, manifests,
                 subtitles, formats, result>>

\* line 302 raises: the call ends
Ws2DurationRaises ==
  /\ pc = "ws2_duration"
  /\ IsRaise(Duration(start_actual, end_actual))
  /\ result' = Duration(start_actual, end_actual)
  /\ pc' = "ws2_done"
  /\ UNCHANGED <<parse_vars, europa_vars, webstream_vars, formats>>

\* lines 302-312: the page's formats and subtitles are overwritten
Ws2Duration ==
  /\ pc = "ws2_duration"
  /\ ~IsRaise(Duration(start_actual, end_actual))
  /\ video_duration' = Duration(start_actual, end_actual)
  /\ formats' = <<>>
  /\ subtitles' = [l \in {} |-> <<>>]
  /\ pc' = "ws2_loop"
  /\ UNCHANGED <<parse_vars, europa_vars, webpage_nextjs, json_info, start_actual, end_actual,
                 manifests, result>>

\* lines 313-316: the expander call is commented out, so the first pass of the
\* loop reads the name fmt, which nothing has bound
Ws2ManifestRaises ==
  /\ pc = "ws2_loop"
  /\ HlsUrls(json_info) # <<>>
  /\ result' = NameError
  /\ pc' = "ws2_done"
  /\ UNCHANGED <<parse_vars, europa_vars, webstream_vars, formats>>

\* lines 321-329: reached with no hls url only
Ws2Return ==
  /\ pc = "ws2_loop"
  /\ HlsUrls(json_info) = <<>>
  /\ result' = [kind |-> "info", id |-> json_info.id, formats |-> formats,
                subtitles |-> subtitles, duration |-> video_duration]
  /\ pc' = "ws2_done"
  /\ UNCHANGED <<parse_vars, europa_vars, webstream_vars, formats>>

NextWebstream2 ==
  \/ Ws2PageDataRaises \/ Ws2PageData \/ Ws2ParseTimes \/ Ws2DurationRaises
  \/ Ws2Duration \/ Ws2ManifestRaises \/ Ws2Return

SpecWebstream2 == InitWebstream2 /\ [][NextWebstream2]_vars

----------------------------------------------------------------------------
Init == InitParse \/ InitEuropa \/ InitWebstream \/ InitWebstream2
Next == NextParse \/ NextEuropa \/ NextWebstream \/ NextWebstream2
Spec == Init /\ [][Next]_vars

----------------------------------------------------------------------------
(* Properties *)

Min(S) == CHOOSE x \in S : \A y \in S : x <= y
Max(S) == CHOOSE x \in S : \A y \in S : y <= x
Elems(seq) == {seq[i] : i \in 1..Len(seq)}
FirstIndex(seq, x) == Min({i \in 1..Len(seq) : seq[i] = x})

\* the unparseable timestamps of a meeting record
Unparseable(str) == _parse_datetime(str) = None

\* C1: when startDateTime or endDateTime is a string _parse_datetime cannot
\* parse, the extraction still completes and returns a record whose duration
\* is None; it does not raise.
C1_UnparseableGivesAbsentDuration ==
  (pc = "ws_done"
     /\ (Unparseable(json_info.startDateTime) \/ Unparseable(json_info.endDateTime)))
    => (result.kind = "info" /\ result.duration = None)

\* C2: _parse_datetime returns a parsed instant or None for every input
\* string; it never raises.
C2_NeverRaises == pc = "parse_done" => parsed.kind \in {"datetime", "None"}

\* an input that passes a pre-check, makes strptime raise, and comes back as None
C2_Witness ==
  /\ pc = "parse_done"
  /\ re_match(datetime_regex_without_microseconds, datetime_str) # <<>>
  /\ datetime_from_str(datetime_str, datetime_format_without_microseconds) = ValueError
  /\ parsed = None

RECURSIVE DigitRun(_, _)
DigitRun(s, p) == IF p <= Len(s) /\ s[p] \in Digits THEN 1 + DigitRun(s, p + 1) ELSE 0
\* the number of fractional-second digits of a timestamp text
FractionDigits(s) == IF Len(s) >= 20 /\ s[20] = "." THEN DigitRun(s, 21) ELSE 0
\* the same timestamp written with its first six fractional digits only
SixDigitForm(s) == SubSeq(s, 1, 26) \o SubSeq(s, 21 + FractionDigits(s), Len(s))
SixDigitFormParses(s) == _parse_datetime(SixDigitForm(s)).kind = "datetime"

\* C3 as stated: a timestamp with 8 or more fractional digits matches the
\* with-microseconds pre-check and parses to the instant of its six-digit form.
C3_EightOrMoreDigits ==
  (pc = "parse_done" /\ FractionDigits(datetime_str) >= 8 /\ SixDigitFormParses(datetime_str))
    => /\ re_match(datetime_regex_with_microseconds, datetime_str) # <<>>
       /\ parsed = _parse_datetime(SixDigitForm(datetime_str))

\* C3 amended: a timestamp with exactly 7 fractional digits matches the
\* with-microseconds pre-check, is cut to its first six fractional digits
\* without rounding and parses to the instant of its six-digit form; with 8 or
\* more fractional digits no pre-check matches and the result is None.
C3_SevenDigits ==
  pc = "parse_done" =>
    /\ (FractionDigits(datetime_str) = 7 /\ SixDigitFormParses(datetime_str))
         => /\ re_match(datetime_regex_with_microseconds, datetime_str) # <<>>
            /\ parsed = _parse_datetime(SixDigitForm(datetime_str))
            /\ parsed.microsecond = int(SubSeq(datetime_str, 21, 26))
    /\ FractionDigits(datetime_str) >= 8
         => /\ re_match(datetime_regex_with_microseconds, datetime_str) = <<>>
            /\ parsed = None

\* seven nines are cut to 999999 microseconds, not rounded up to the next second
C3_Witness ==
  /\ pc = "parse_done"
  /\ FractionDigits(datetime_str) = 7
  /\ parsed.kind = "datetime"
  /\ parsed.microsecond = 999999
  /\ parsed.second = 34

\* leading and trailing white space removed
Trim(cs) ==
  LET inked == {i \in 1..Len(cs) : cs[i] \notin Whitespace}
  IN IF inked = {} THEN <<>> ELSE SubSeq(cs, Min(inked), Max(inked))
\* a language's candidate: its last non-empty label, trimmed
Candidate(item_list, l) ==
  LET labelled == {i \in 1..Len(item_list) :
                     /\ item_list[i].lg = l
                     /\ item_list[i].label # None
                     /\ item_list[i].label.s # <<>>}
  IN IF labelled = {} THEN None ELSE Text(Trim(item_list[Max(labelled)].label.s))
HasCandidate(item_list, l) == Candidate(item_list, l) \notin {None, Text(<<>>)}
Resolved(item_list, preference, default) ==
  LET having == {k \in 1..Len(preference) : HasCandidate(item_list, preference[k])}
  IN IF having = {} THEN default ELSE Candidate(item_list, preference[Min(having)])

\* C4: get_item returns the candidate of the first language in preference
\* order that has a non-empty candidate, a language's candidate being the last
\* non-empty label seen for it; with none, the title is the video identifier
\* and the description is None.
C4_FirstPreferredCandidate ==
  /\ pc \in {"eu_description", "eu_formats", "eu_return", "eu_done"}
       => title = Resolved(playlist.title, preferred_langs, video_id)
  /\ pc \in {"eu_formats", "eu_return", "eu_done"}
       => description = Resolved(playlist.description, preferred_langs, None)

\* the first preferred language has no candidate and the chosen one has two
\* different labels, the later of which is the title
C4_Witness ==
  /\ pc = "eu_description"
  /\ ~HasCandidate(playlist.title, preferred_langs[1])
  /\ Len(playlist.title) = 2
  /\ playlist.title[1].lg = playlist.title[2].lg
  /\ playlist.title[1].label = Text(<<"A">>)
  /\ playlist.title[2].label = Text(<<" ", "B", " ">>)
  /\ title = Text(<<"B">>)

NoDuplicates(seq) == \A i, j \in 1..Len(seq) : i # j => seq[i] # seq[j]
KeepsFirstOccurrenceOrder(list, source) ==
  /\ Elems(list) = Elems(source)
  /\ \A i, j \in 1..Len(list) :
       i < j => FirstIndex(source, list[i]) < FirstIndex(source, list[j])
PreferenceBuilt ==
  pc \in {"eu_title", "eu_description", "eu_formats", "eu_return", "eu_done"}
PreferenceSource == <<PreferredLang(query), Str("en"), Str("int")>>

\* C5 as stated: for every sitelang the preference list has no duplicates,
\* keeps first-occurrence order and ends with 'int'.
C5_EndsWithInt ==
  PreferenceBuilt =>
    /\ NoDuplicates(preferred_langs)
    /\ KeepsFirstOccurrenceOrder(preferred_langs, PreferenceSource)
    /\ preferred_langs[Len(preferred_langs)] = Str("int")

\* C5 amended: for every sitelang the preference list has no duplicates, keeps
\* first-occurrence order and contains 'int'; 'int' is its last element unless
\* sitelang is 'int' itself, and then the list is ['int', 'en'].
C5_ContainsInt ==
  PreferenceBuilt =>
    /\ NoDuplicates(preferred_langs)
    /\ KeepsFirstOccurrenceOrder(preferred_langs, PreferenceSource)
    /\ Str("int") \in Elems(preferred_langs)
    /\ IF PreferredLang(query) = Str("int")
       THEN preferred_langs = <<Str("int"), Str("en")>>
       ELSE preferred_langs[Len(preferred_langs)] = Str("int")

C5_Witness ==
  /\ pc = "eu_title"
  /\ "sitelang" \in DOMAIN query
  /\ query["sitelang"] = <<Str("int")>>
  /\ preferred_langs = <<Str("int"), Str("en")>>

RankedLanguages == {None} \cup {Str(l) : l \in {"en", "fr", "int", "de", "it"}}
Listed(l) == l \in Elems(preferred_langs)

\* C6: the language_preference rank is a strict order consistent with the
\* preference list: an earlier language ranks above a later one, and every
\* listed language ranks above every unlisted or missing one; the rank
\* attached to the format entries is ordered the same way.
C6_RankFollowsPreference ==
  pc \in {"eu_return", "eu_done"} =>
    /\ \A a, b \in RankedLanguages :
         (Listed(a) /\ Listed(b)
            /\ FirstIndex(preferred_langs, a) < FirstIndex(preferred_langs, b))
           => qualities(language_preference, a) > qualities(language_preference, b)
    /\ \A a, b \in RankedLanguages :
         (Listed(a) /\ ~Listed(b))
           => qualities(language_preference, a) > qualities(language_preference, b)
    /\ \A i, j \in 1..Len(formats) :
         LET f == formats[i]
             g == formats[j]
         IN /\ (Listed(f.format_id) /\ Listed(g.format_id)
                  /\ FirstIndex(preferred_langs, f.format_id)
                       < FirstIndex(preferred_langs, g.format_id))
                 => f.language_preference > g.language_preference
            /\ (Listed(f.format_id) /\ ~Listed(g.format_id))
                 => f.language_preference > g.language_preference

\* formats in the first and the last listed language and a third preference
\* between them
C6_Witness ==
  /\ pc = "eu_return"
  /\ preferred_langs = <<Str("fr"), Str("en"), Str("int")>>
  /\ Len(formats) = 2
  /\ formats[1].format_id = Str("int")
  /\ formats[2].format_id = Str("fr")
  /\ formats[2].language_preference > formats[1].language_preference

\* C7: the running subtitles collection only grows: every (language, entry)
\* pair present after one manifest is present after every later one.
C7_SubtitlesOnlyGrow ==
  [][pc = "ws_loop" =>
       \A lang \in DOMAIN subtitles :
         /\ lang \in DOMAIN subtitles'
         /\ \A i \in 1..Len(subtitles[lang]) :
              \E j \in 1..Len(subtitles'[lang]) : subtitles'[lang][j] = subtitles[lang][i]]_vars

\* two manifests brought different tracks for "en" and the collection holds more
\* than either brought
C7_Witness ==
  /\ pc = "ws_loop"
  /\ Len(manifests) = 2
  /\ "en" \in DOMAIN manifests[1].subs
  /\ "en" \in DOMAIN manifests[2].subs
  /\ Len(subtitles["en"]) > Len(manifests[1].subs["en"])
  /\ Len(subtitles["en"]) > Len(manifests[2].subs["en"])

\* a parsed timestamp as an absolute instant: days, seconds and microseconds
\* of UTC
UtcInstant(dt) ==
  timedelta(toordinal(dt.year, dt.month, dt.day),
            SecondOfDay(dt) - dt.utcoffset.seconds,
            dt.microsecond - dt.utcoffset.microseconds)
\* floor(end - start) in whole seconds
FloorOfDifference(start, end) ==
  LET d == timedelta(UtcInstant(end).days - UtcInstant(start).days,
                     UtcInstant(end).seconds - UtcInstant(start).seconds,
                     UtcInstant(end).microseconds - UtcInstant(start).microseconds)
  IN Seconds(d.days, d.seconds)

\* C8: when both timestamps parse, the returned duration is floor(end - start)
\* in whole seconds on the absolute instants.
C8_DurationIsFloor ==
  (pc = "ws_done" /\ result.kind = "info")
    => result.duration = FloorOfDifference(start_actual, end_actual)

\* C9: the duration of a returned record is None or a non-negative integer,
\* also when the end is earlier than the start.
C9_DurationNotNegative ==
  (pc = "ws_done" /\ result.kind = "info")
    => (result.duration = None \/ result.duration.days >= 0)

\* the language of the first meetingAudio element with that trackIdentifier
TrackLanguage(x, meetingAudio) ==
  LET hits == {i \in 1..Len(meetingAudio) : meetingAudio[i].trackIdentifier = x}
  IN IF x = None \/ hits = {} THEN None ELSE meetingAudio[Min(hits)].language
RECURSIVE ResolvedOnce(_, _)
ResolvedOnce(ms, meetingAudio) ==
  IF ms = <<>> THEN <<>>
  ELSE ResolvedOnce(SubSeq(ms, 1, Len(ms) - 1), meetingAudio)
         \o [j \in 1..Len(ms[Len(ms)].fmt) |->
               [url |-> ms[Len(ms)].fmt[j].url,
                format_id |-> ms[Len(ms)].fmt[j].format_id,
                language |-> TrackLanguage(ms[Len(ms)].fmt[j].language, meetingAudio)]]

\* C10: every format entry of the returned list, from every manifest, has its
\* language looked up exactly once: it is the language of the first
\* meetingAudio element whose trackIdentifier is the entry's original language
\* value, and None when that value is None or matches no element.
C10_LanguagesResolvedOnce ==
  (pc = "ws_done" /\ result.kind = "info")
    => result.formats = ResolvedOnce(manifests, json_info.meetingAudio)

\* three manifests; the first brought a track that resolves to "en", and the
\* record also holds an entry without a track and one with an unknown track
C10_Witness ==
  /\ pc = "ws_done"
  /\ result.kind = "info"
  /\ Len(manifests) = 3
  /\ manifests[1].fmt # <<>>
  /\ manifests[1].fmt[1].language = Str("t1")
  /\ result.formats[1].language = Str("en")
  /\ \E i \in 1..Len(manifests) : \E j \in 1..Len(manifests[i].fmt) :
       manifests[i].fmt[j].language = None
  /\ \E i \in 1..Len(manifests) : \E j \in 1..Len(manifests[i].fmt) :
       manifests[i].fmt[j].language = Str("t3")
====
